---- MODULE Spec2Model ----
(***************************************************************************)
(* Model of internal/user/user.go: the five data-access operations List,   *)
(* Retrieve, Create, Update and Delete over the "users" collection.        *)
(*                                                                         *)
(* A pointer (to a time.Time, to a User) is a sequence of length at most   *)
(* one: <<>> is nil and <<x>> points to x.  An identifier is a sequence of *)
(* one-character strings.  An error is a record of its cause and of the    *)
(* context message it was wrapped with ("" when it is not wrapped).        *)
(***************************************************************************)
EXTENDS Integers, Sequences, FiniteSets

\* How many identifiers bson.NewObjectId hands out in a run.
MaxCreates == 2
\* The longest address list of a request.
MaxAddr == 2

\* The values of the caller-supplied now.
Times == {1, 2}

\* A bson.ObjectId is 12 bytes, its hex form 24 characters.
ObjectIdBytes == 12

VARIABLES
    store,            \* the documents of the "users" collection, in insertion order
    objectIdCounter,  \* the counter bson.NewObjectId increments
    last,             \* the last call: operation, identifier, what it returned
    lastWrite,        \* per identifier, the last successful Create or Update
    deleted,          \* the identifiers a successful Delete has removed
    storeChanged,     \* whether the last call changed the collection
    before            \* the identifiers stored, and those deleted, when the last call began

vars == <<store, objectIdCounter, last, lastWrite, deleted, storeChanged, before>>

-----------------------------------------------------------------------------
\* Errors

NoErr == [cause |-> "nil", wrap |-> ""]
ErrNotFound == [cause |-> "Entity not found", wrap |-> ""]
ErrInvalidID == [cause |-> "ID is not in its proper form", wrap |-> ""]
MgoErrNotFound == [cause |-> "not found", wrap |-> ""]
IoErr == [cause |-> "i/o failure", wrap |-> ""]

\* errors.Wrap(err, msg): the cause is kept, the context is added.
Wrap(err, msg) == [cause |-> err.cause, wrap |-> msg]

\* WrapFailure with the error dropped.
WrapSwallowed(execErr, msg) == NoErr
\* A failed List or Create: the error of the round trip, wrapped.
WrapFailure(execErr, msg) ==
    IF execErr = NoErr THEN NoErr ELSE Wrap(execErr, msg)

\* NotFoundOrWrap without the test for mgo.ErrNotFound.
NotFoundWrapped(execErr, msg) ==
    IF execErr = NoErr THEN NoErr ELSE Wrap(execErr, msg)
\* A failed Retrieve, Update or Delete: mgo.ErrNotFound becomes ErrNotFound,
\* anything else is wrapped.
NotFoundOrWrap(execErr, msg) ==
    IF execErr = NoErr THEN NoErr
    ELSE IF execErr = MgoErrNotFound THEN ErrNotFound
    ELSE Wrap(execErr, msg)

-----------------------------------------------------------------------------
\* Identifiers

HexDigits == <<"0", "1", "2", "3", "4", "5", "6", "7",
               "8", "9", "a", "b", "c", "d", "e", "f">>
HexChars == {HexDigits[i] : i \in DOMAIN HexDigits} \cup {"A", "B", "C", "D", "E", "F"}

\* NewObjectId with a counter that does not move.
NewObjectIdFixed(c) ==
    <<91, 12, 200, 5, 17, 34, 51, 2, 9, 0, 0, 0>>
\* bson.NewObjectId: 4 bytes of time, 3 of machine, 2 of pid, and the
\* 3 bytes of the counter, big-endian.
NewObjectId(c) ==
    <<91, 12, 200, 5, 17, 34, 51, 2, 9,
      (c \div 65536) % 256, (c \div 256) % 256, c % 256>>

\* ObjectId.Hex: two lowercase hex digits per byte.
Hex(b) ==
    [i \in 1..(2 * Len(b)) |->
        IF i % 2 = 1 THEN HexDigits[(b[(i + 1) \div 2] \div 16) + 1]
                     ELSE HexDigits[(b[i \div 2] % 16) + 1]]

\* IsObjectIdHex without the test.
IsObjectIdHexAny(s) == TRUE
\* bson.IsObjectIdHex: 24 characters that decode as hex.
IsObjectIdHex(s) ==
    /\ Len(s) = 2 * ObjectIdBytes
    /\ \A i \in 1..Len(s) : s[i] \in HexChars

\* The identifiers bson.NewObjectId can hand out: each of them matches no
\* stored user before Create has returned it and after Delete has removed it.
WellFormedIds == {Hex(NewObjectId(c)) : c \in 0..(MaxCreates - 1)}

\* Identifiers that are not object ids: empty, hex of the wrong length, and
\* of the right length but not hex.
MalformedIds ==
    { <<>>,
      [i \in 1..(2 * ObjectIdBytes - 1) |-> "a"],
      [i \in 1..(2 * ObjectIdBytes) |-> IF i = 1 THEN "z" ELSE "0"] }

IdInputs == WellFormedIds \cup MalformedIds

-----------------------------------------------------------------------------
\* Requests

\* The decimal digit of a small number, to tell the field values apart.
Digit == <<"1", "2", "3", "4", "5", "6", "7", "8", "9">>

\* A CreateAddress whose fields all differ, so that a swapped field shows.
\* The first address of a list comes with a modification time already set,
\* the others with none.
CreateAddress(v, i) ==
    [Type |-> i,
     LineOne |-> "line_one_" \o Digit[v] \o "_" \o Digit[i],
     LineTwo |-> "line_two_" \o Digit[v] \o "_" \o Digit[i],
     City |-> "city_" \o Digit[v] \o "_" \o Digit[i],
     State |-> "state_" \o Digit[v] \o "_" \o Digit[i],
     Zipcode |-> "zipcode_" \o Digit[v] \o "_" \o Digit[i],
     Phone |-> "phone_" \o Digit[v] \o "_" \o Digit[i],
     DateModified |-> IF i = 1 THEN <<1>> ELSE <<>>]

CreateUser(v, n) ==
    [UserType |-> v,
     FirstName |-> "first_name_" \o Digit[v],
     LastName |-> "last_name_" \o Digit[v],
     Email |-> "email_" \o Digit[v],
     Company |-> "company_" \o Digit[v],
     Addresses |-> [i \in 1..n |-> CreateAddress(v, i)],
     DateModified |-> <<>>]

\* The requests of the callers: one without addresses, one with the longest
\* list of addresses.
Requests == {CreateUser(1, 0), CreateUser(2, MaxAddr)}

-----------------------------------------------------------------------------
\* Documents

\* The Address that Create builds from an address of the request.
NewAddress(cua, now) ==
    [Type |-> cua.Type,
     LineOne |-> cua.LineOne,
     LineTwo |-> cua.LineTwo,
     City |-> cua.City,
     State |-> cua.State,
     Zipcode |-> cua.State,
     Phone |-> cua.Phone,
     DateCreated |-> <<now>>,
     DateModified |-> <<now>>]

\* The User that Create builds from the request.
NewUser(id, cu, now) ==
    [UserID |-> id,
     UserType |-> cu.UserType,
     FirstName |-> cu.FirstName,
     LastName |-> cu.LastName,
     Email |-> cu.Email,
     Company |-> cu.Company,
     DateCreated |-> <<now>>,
     DateModified |-> <<now>>,
     Addresses |-> [i \in 1..Len(cu.Addresses) |-> NewAddress(cu.Addresses[i], now)]]

\* StampRequest with the loop writing to the addresses themselves.
StampRequestAll(cu, now) ==
    [cu EXCEPT !.DateModified = <<now>>,
               !.Addresses = [i \in 1..Len(cu.Addresses) |->
                                 [cu.Addresses[i] EXCEPT !.DateModified = <<now>>]]]
\* StampRequest without the stamp.
StampRequestNone(cu, now) == cu
\* What Update does to its request before it is sent: the request's own
\* modification time is set; the loop over the addresses sets the time of
\* its loop variable, a copy, so the addresses stay as they were.
StampRequest(cu, now) ==
    [cu EXCEPT !.DateModified = <<now>>]

\* An address of a request as the sub-document the store keeps and Retrieve
\* decodes: the request's address has no creation time.
AddressDocument(cua) ==
    [Type |-> cua.Type,
     LineOne |-> cua.LineOne,
     LineTwo |-> cua.LineTwo,
     City |-> cua.City,
     State |-> cua.State,
     Zipcode |-> cua.Zipcode,
     Phone |-> cua.Phone,
     DateCreated |-> <<>>,
     DateModified |-> cua.DateModified]

\* {"$set": cu}: the fields of the request replace those of the document,
\* the address list as a whole; user_id and date_created are not among them.
SetFields(doc, cu) ==
    [doc EXCEPT !.UserType = cu.UserType,
                !.FirstName = cu.FirstName,
                !.LastName = cu.LastName,
                !.Email = cu.Email,
                !.Company = cu.Company,
                !.Addresses = [i \in 1..Len(cu.Addresses) |->
                                  AddressDocument(cu.Addresses[i])],
                !.DateModified = cu.DateModified]

-----------------------------------------------------------------------------
\* The collection

\* The positions of the documents {"user_id": userID} selects.
Matches(coll, userID) == {i \in 1..Len(coll) : coll[i].UserID = userID}

FirstMatch(coll, userID) ==
    CHOOSE i \in Matches(coll, userID) : \A j \in Matches(coll, userID) : i <= j

\* FindAll that skips a document.
FindAllButFirst(coll) == IF coll = <<>> THEN <<>> ELSE Tail(coll)
\* collection.Find(nil).All(&u)
FindAll(coll) == coll

\* collection.Find(q).One(&u): the error
FindOneErr(coll, userID) ==
    IF Matches(coll, userID) = {} THEN MgoErrNotFound ELSE NoErr

\* collection.Find(q).One(&u): the document decoded into u
FindOne(coll, userID) ==
    IF Matches(coll, userID) = {} THEN <<>> ELSE <<coll[FirstMatch(coll, userID)]>>

\* collection.Insert(&u)
Insert(coll, u) == Append(coll, u)

\* collection.Update(q, m): the first matching document is changed.
UpdateOne(coll, userID, cu) ==
    IF Matches(coll, userID) = {} THEN coll
    ELSE [coll EXCEPT ![FirstMatch(coll, userID)] = SetFields(@, cu)]

\* RemoveOne that removes nothing.
RemoveNothing(coll, userID) == coll
\* collection.Remove(q): the first matching document is removed.
RemoveOne(coll, userID) ==
    IF Matches(coll, userID) = {} THEN coll
    ELSE LET k == FirstMatch(coll, userID)
         IN [i \in 1..(Len(coll) - 1) |-> IF i < k THEN coll[i] ELSE coll[i + 1]]

\* dbConn.Execute(ctx, usersCollection, f): the round trip fails, or it
\* returns what the callback f returned.
ExecOutcomes == {"ok", "fail"}
Execute(outcome, callbackErr) ==
    IF outcome = "fail" THEN IoErr ELSE callbackErr

-----------------------------------------------------------------------------
\* The calls

NilUsers == [isNil |-> TRUE, elems |-> <<>>]
Users(us) == [isNil |-> FALSE, elems |-> us]

NoWrite == [op |-> "none"]

\* The identifiers of the stored users, in order, and the deleted identifiers.
Snapshot == [ids |-> [i \in 1..Len(store) |-> store[i].UserID], deleted |-> deleted]

Returned(op, id, err, execCalls, execErr, user, users) ==
    [op |-> op, id |-> id, err |-> err, execCalls |-> execCalls,
     execErr |-> execErr, user |-> user, users |-> users]

\* A successful Update: what it returned, and the request as the call left it.
ReturnedUpdate(id, cuOut) ==
    [op |-> "Update", id |-> id, err |-> NoErr, execCalls |-> 1,
     execErr |-> NoErr, user |-> <<>>, users |-> NilUsers, cuOut |-> cuOut]

Init ==
    /\ store = <<>>
    /\ objectIdCounter = 0
    /\ last = Returned("none", <<>>, NoErr, 0, NoErr, <<>>, NilUsers)
    /\ lastWrite = [id \in WellFormedIds |-> NoWrite]
    /\ deleted = {}
    /\ storeChanged = FALSE
    /\ before = Snapshot

List ==
    \E outcome \in ExecOutcomes :
        LET execErr == Execute(outcome, NoErr)
            u == IF execErr = NoErr THEN FindAll(store) ELSE <<>>
            err == WrapFailure(execErr, "db.users.find()")
        IN /\ last' = Returned("List", <<>>, err, 1, execErr, <<>>,
                               IF err # NoErr THEN NilUsers ELSE Users(u))
           /\ UNCHANGED <<store, objectIdCounter, lastWrite, deleted>>
           /\ storeChanged' = FALSE
           /\ before' = Snapshot

Retrieve ==
    \E userID \in IdInputs :
        IF ~IsObjectIdHex(userID)
        THEN /\ last' = Returned("Retrieve", userID,
                                 Wrap(ErrInvalidID, "bson.IsObjectIdHex"),
                                 0, NoErr, <<>>, NilUsers)
             /\ UNCHANGED <<store, objectIdCounter, lastWrite, deleted>>
             /\ storeChanged' = FALSE
             /\ before' = Snapshot
        ELSE \E outcome \in ExecOutcomes :
             LET execErr == Execute(outcome, FindOneErr(store, userID))
                 u == IF execErr = NoErr THEN FindOne(store, userID) ELSE <<>>
                 err == NotFoundOrWrap(execErr, "db.users.find")
             IN /\ last' = Returned("Retrieve", userID, err, 1, execErr,
                                    IF err # NoErr THEN <<>> ELSE u, NilUsers)
                /\ UNCHANGED <<store, objectIdCounter, lastWrite, deleted>>
                /\ storeChanged' = FALSE
                /\ before' = Snapshot

\* The request and now reach the collection only when the round trip does
\* not fail; a failed Create returns before anything built from them is used.
Create ==
    /\ objectIdCounter < MaxCreates
    /\ \E outcome \in ExecOutcomes :
        LET id == Hex(NewObjectId(objectIdCounter))
            execErr == Execute(outcome, NoErr)
            err == WrapFailure(execErr, "db.users.insert")
        IN /\ objectIdCounter' = objectIdCounter + 1
           /\ IF err # NoErr
              THEN /\ last' = Returned("Create", <<>>, err, 1, execErr, <<>>, NilUsers)
                   /\ UNCHANGED <<store, lastWrite>>
              ELSE \E cu \in Requests, now \in Times :
                   LET u == NewUser(id, cu, now)
                   IN /\ store' = Insert(store, u)
                      /\ last' = Returned("Create", <<>>, err, 1, execErr, <<u>>, NilUsers)
                      /\ lastWrite' = IF id \in DOMAIN lastWrite
                                      THEN [lastWrite EXCEPT ![id] =
                                               [op |-> "Create", cu |-> cu, now |-> now]]
                                      ELSE lastWrite
           /\ UNCHANGED deleted
           /\ storeChanged' = (store' # store)
           /\ before' = Snapshot

\* The stamped request reaches the collection only when the round trip finds
\* the user; a failed Update returns without the request being used.
Update ==
    \E userID \in IdInputs :
        IF ~IsObjectIdHex(userID)
        THEN /\ last' = Returned("Update", userID, Wrap(ErrInvalidID, "check objectid"),
                                 0, NoErr, <<>>, NilUsers)
             /\ UNCHANGED <<store, objectIdCounter, lastWrite, deleted>>
             /\ storeChanged' = FALSE
             /\ before' = Snapshot
        ELSE \E outcome \in ExecOutcomes :
             LET execErr == Execute(outcome, FindOneErr(store, userID))
                 err == NotFoundOrWrap(execErr, "db.customers.update")
             IN /\ IF err # NoErr
                   THEN /\ last' = Returned("Update", userID, err, 1, execErr,
                                             <<>>, NilUsers)
                        /\ UNCHANGED <<store, lastWrite>>
                   ELSE \E cu \in Requests, now \in Times :
                        LET cuOut == StampRequest(cu, now)
                        IN /\ last' = ReturnedUpdate(userID, cuOut)
                           /\ store' = UpdateOne(store, userID, cuOut)
                           /\ lastWrite' = IF userID \in DOMAIN lastWrite
                                           THEN [lastWrite EXCEPT ![userID] =
                                                    [op |-> "Update", cu |-> cu,
                                                     now |-> now]]
                                           ELSE lastWrite
                /\ UNCHANGED <<objectIdCounter, deleted>>
                /\ storeChanged' = (store' # store)
                /\ before' = Snapshot

Delete ==
    \E userID \in IdInputs :
        IF ~IsObjectIdHex(userID)
        THEN /\ last' = Returned("Delete", userID,
                                 Wrap(ErrInvalidID, "bson.IsObjectIdHex"),
                                 0, NoErr, <<>>, NilUsers)
             /\ UNCHANGED <<store, objectIdCounter, lastWrite, deleted>>
             /\ storeChanged' = FALSE
             /\ before' = Snapshot
        ELSE \E outcome \in ExecOutcomes :
             LET execErr == Execute(outcome, FindOneErr(store, userID))
                 err == NotFoundOrWrap(execErr, "db.users.remove")
             IN /\ store' = IF execErr = NoErr THEN RemoveOne(store, userID) ELSE store
                /\ last' = Returned("Delete", userID, err, 1, execErr, <<>>, NilUsers)
                /\ lastWrite' = IF err = NoErr /\ userID \in DOMAIN lastWrite
                                THEN [lastWrite EXCEPT ![userID] = NoWrite]
                                ELSE lastWrite
                /\ deleted' = IF err = NoErr THEN deleted \cup {userID} ELSE deleted
                /\ UNCHANGED objectIdCounter
                /\ storeChanged' = (store' # store)
                /\ before' = Snapshot

Next == List \/ Retrieve \/ Create \/ Update \/ Delete

Spec == Init /\ [][Next]_vars

-----------------------------------------------------------------------------
\* Properties

Lookups == {"Retrieve", "Update", "Delete"}

UserIDs(coll) == {coll[i].UserID : i \in 1..Len(coll)}

\* Whether the address a of a stored user has the fields of the address cua
\* of a request.
SameAddress(a, cua) ==
    /\ a.Type = cua.Type
    /\ a.LineOne = cua.LineOne
    /\ a.LineTwo = cua.LineTwo
    /\ a.City = cua.City
    /\ a.State = cua.State
    /\ a.Zipcode = cua.Zipcode
    /\ a.Phone = cua.Phone

\* Whether the user u has the top-level fields of the request cu.
SameTopLevel(u, cu) ==
    /\ u.UserType = cu.UserType
    /\ u.FirstName = cu.FirstName
    /\ u.LastName = cu.LastName
    /\ u.Email = cu.Email
    /\ u.Company = cu.Company

\* C1: a successful Retrieve of an identifier whose last write is the Create
\* that returned it yields a user with the fields of Create's request, each
\* address in order with its seven fields, and both timestamps equal to the
\* now of that Create.
C1_CreateRetrieveRoundTrip ==
    (/\ last.op = "Retrieve"
     /\ last.err = NoErr
     /\ lastWrite[last.id].op = "Create")
    => LET u == last.user[1]
           cu == lastWrite[last.id].cu
           now == lastWrite[last.id].now
       IN /\ u.UserID = last.id
          /\ SameTopLevel(u, cu)
          /\ Len(u.Addresses) = Len(cu.Addresses)
          /\ \A i \in 1..Len(cu.Addresses) : SameAddress(u.Addresses[i], cu.Addresses[i])
          /\ u.DateCreated = <<now>>
          /\ u.DateModified = <<now>>

\* C2: Retrieve, Update and Delete with an identifier that is not an object
\* id fail with ErrInvalidID, make no Execute call and leave the collection
\* as it was.
C2_MalformedIdRejected ==
    (last.op \in Lookups /\ last.id \in MalformedIds)
    => /\ last.err # NoErr
       /\ last.err.cause = ErrInvalidID.cause
       /\ last.execCalls = 0
       /\ ~storeChanged

C2_Witness ==
    /\ last.op = "Delete"
    /\ last.id \in MalformedIds
    /\ last.err.cause = ErrInvalidID.cause
    /\ Len(store) > 0

\* C3: a Retrieve, Update or Delete with a well-formed identifier that
\* matched no stored user when it began, whose round trip to the store is
\* not cut short by another failure, returns ErrNotFound itself, not wrapped,
\* and leaves the collection as it was.
C3_AbsentIdNotFound ==
    (/\ last.op \in Lookups
     /\ last.id \in WellFormedIds
     /\ \A i \in 1..Len(before.ids) : before.ids[i] # last.id
     /\ last.execErr # IoErr)
    => /\ last.err = ErrNotFound
       /\ ~storeChanged

C3_Witness ==
    /\ last.op = "Update"
    /\ last.id \in WellFormedIds
    /\ last.err = ErrNotFound
    /\ Len(store) > 0
    /\ ~storeChanged

\* C4: a successful Retrieve of an identifier whose last write is a
\* successful Update yields a user with the top-level fields of that Update's
\* request, the modification time of that Update's now, and the identifier
\* asked for.
C4_UpdateThenRetrieve ==
    (/\ last.op = "Retrieve"
     /\ last.err = NoErr
     /\ lastWrite[last.id].op = "Update")
    => LET u == last.user[1]
           w == lastWrite[last.id]
       IN /\ SameTopLevel(u, w.cu)
          /\ u.DateModified = <<w.now>>
          /\ u.UserID = last.id

C4_Witness ==
    /\ last.op = "Retrieve"
    /\ last.err = NoErr
    /\ lastWrite[last.id].op = "Update"
    /\ last.user[1].DateCreated # last.user[1].DateModified
    /\ Len(store) > 1

\* C5: once a Delete of an identifier has succeeded, no call begun later
\* leaves a user of that identifier in the collection, every later Retrieve, Update
\* and Delete of it whose round trip is not cut short by another failure
\* returns ErrNotFound, and no later List returns a user of it.
C5_DeletedStaysDeleted ==
    \A id \in before.deleted :
        /\ id \notin UserIDs(store)
        /\ (last.op \in Lookups /\ last.id = id /\ last.execErr # IoErr)
           => last.err = ErrNotFound
        /\ (last.op = "List" /\ last.err = NoErr)
           => id \notin UserIDs(last.users.elems)

C5_Witness ==
    /\ last.op = "Retrieve"
    /\ last.id \in before.deleted
    /\ last.err = ErrNotFound
    /\ Len(store) > 0

\* C6: every stored user and every address in it has a creation time and a
\* modification time.
C6_AllStamped ==
    \A i \in 1..Len(store) :
        /\ store[i].DateCreated # <<>>
        /\ store[i].DateModified # <<>>
        /\ \A j \in 1..Len(store[i].Addresses) :
              /\ store[i].Addresses[j].DateCreated # <<>>
              /\ store[i].Addresses[j].DateModified # <<>>

\* No two stored users have the same identifier.
UniqueUserIDs ==
    \A i, j \in 1..Len(store) : store[i].UserID = store[j].UserID => i = j

\* C7: no two stored users share an identifier; an identifier comes into the
\* collection only by a Create, which returns one that was never in it; and
\* an Update leaves the identifier of every stored user as it was.
C7_IdentifierAssignedOnce ==
    /\ UniqueUserIDs
    /\ \A k \in 1..Len(store) :
          (\A i \in 1..Len(before.ids) : before.ids[i] # store[k].UserID)
          => /\ last.op = "Create"
             /\ last.user = <<store[k]>>
             /\ k = Len(store)
             /\ store[k].UserID \notin before.deleted
    /\ last.op = "Update"
          => /\ Len(store) = Len(before.ids)
             /\ \A i \in 1..Len(store) : store[i].UserID = before.ids[i]

C7_Witness ==
    /\ Len(store) > 1
    /\ last.op = "Update"
    /\ last.err = NoErr
    /\ storeChanged

\* C8: List leaves the collection as it was; when its round trip does not
\* fail it returns no error and the stored users, all of them, as a sequence
\* that is not nil, also when there is none.
C8_ListReturnsAll ==
    (last.op = "List")
    => /\ ~storeChanged
       /\ (last.execErr = NoErr)
          => /\ last.err = NoErr
             /\ ~last.users.isNil
             /\ last.users.elems = store

C8_Witness ==
    /\ last.op = "List"
    /\ last.err = NoErr
    /\ Len(last.users.elems) > 1

\* C9: a call whose round trip failed returns an error and neither a user
\* nor a list: ErrNotFound when a Retrieve, Update or Delete matched nothing,
\* and otherwise the failure itself, wrapped with the context of the call.
C9_FailureSurfaced ==
    (last.execErr # NoErr)
    => /\ last.err # NoErr
       /\ last.user = <<>>
       /\ last.users.isNil
       /\ IF last.execErr = MgoErrNotFound /\ last.op \in Lookups
          THEN last.err = ErrNotFound
          ELSE /\ last.err.cause = last.execErr.cause
               /\ last.err.wrap # ""

C9_Witness ==
    /\ last.op \in {"List", "Create"}
    /\ last.execErr = IoErr
    /\ last.err = Wrap(IoErr, last.err.wrap)
    /\ Len(store) > 0

\* C10: a successful Update leaves the request with its own modification
\* time set to now and its addresses as they came, and the addresses it
\* stores have the modification times the request's addresses came with.
C10_AddressStampDiscarded ==
    (last.op = "Update" /\ last.err = NoErr)
    => LET w == lastWrite[last.id]
           doc == store[FirstMatch(store, last.id)]
       IN /\ last.cuOut.DateModified = <<w.now>>
          /\ last.cuOut.Addresses = w.cu.Addresses
          /\ doc.DateModified = <<w.now>>
          /\ Len(doc.Addresses) = Len(w.cu.Addresses)
          /\ \A i \in 1..Len(w.cu.Addresses) :
                doc.Addresses[i].DateModified = w.cu.Addresses[i].DateModified

C10_Witness ==
    /\ last.op = "Update"
    /\ last.err = NoErr
    /\ Len(lastWrite[last.id].cu.Addresses) > 1
    /\ \A i \in 1..Len(lastWrite[last.id].cu.Addresses) :
          lastWrite[last.id].cu.Addresses[i].DateModified # <<lastWrite[last.id].now>>

====
